---- MODULE Spec2Model ----
(***************************************************************************)
(* A model of package gop: the formatter (Format, readableStr,             *)
(* replaceEscaped of format.go), the themes, and the value walker          *)
(* (Tokenize) that feeds it.                                               *)
(*                                                                         *)
(* A Go string is a sequence of characters, each a one-character TLA+      *)
(* string.  The indentation unit and the style markers are never looked    *)
(* into by the code, so each is one symbol of such a sequence.             *)
(***************************************************************************)
EXTENDS Integers, Sequences, FiniteSets, TLC

VARIABLES
    pc,      \* which function runs, or "done" / "panic"
    ts,      \* Format: the token list
    theme,   \* Format: the theme
    i,       \* Format: index of the next token of the loop (1-based)
    depth,   \* Format: the depth counter
    out,     \* Format: the strings.Builder out
    lit,     \* readableStr: the literal it was called with
    sdepth,  \* readableStr: its depth parameter
    s,       \* readableStr: its local s
    re,      \* replaceEscaped: state, out, buf, has
    ri,      \* replaceEscaped: index of the next rune of the loop (1-based)
    res,     \* readableStr: the returned string
    heap,    \* Tokenize: the value graph, node -> its elements
    stack,   \* Tokenize: the recursion stack, root first
    seen,    \* Tokenize: the visited set, node -> path of its visit
    toks     \* Tokenize: the tokens emitted so far

vars == <<pc, ts, theme, i, depth, out, lit, sdepth, s, re, ri, res,
          heap, stack, seen, toks>>

fmtVars == <<ts, theme, i, depth, out>>
strVars == <<lit, sdepth, s, re, ri, res>>
tokVars == <<heap, stack, seen, toks>>

----------------------------------------------------------------------------
(* Bounds of the model. *)

MaxStrLen == 3
MaxDepth == 1
MaxToks == 3
MaxNest == 5
MaxNodes == 2
MaxEdges == 3

----------------------------------------------------------------------------
(* Characters and strings. *)

NL == "\n"
TAB == "\t"
DQ == "\""
BS == "\\"
BT == "BACKQUOTE"   \* the backquote character, which a TLA+ string cannot hold
SP == " "

indentUnit == <<"    ">>

RECURSIVE Repeat(_, _)
Repeat(unit, n) == IF n <= 0 THEN <<>> ELSE unit \o Repeat(unit, n - 1)

Contains(str, c) == \E k \in 1..Len(str) : str[k] = c

HasSuffix(str, suffix) ==
    /\ Len(str) >= Len(suffix)
    /\ SubSeq(str, Len(str) - Len(suffix) + 1, Len(str)) = suffix

RECURSIVE SeqsUpTo(_, _)
SeqsUpTo(A, n) ==
    IF n = 0 THEN {<<>>}
    ELSE LET shorter == SeqsUpTo(A, n - 1)
         IN  shorter \cup {Append(q, x) : q \in {r \in shorter : Len(r) = n - 1}, x \in A}

----------------------------------------------------------------------------
(* fmt.Sprintf("%#v", s) of a string: the Go-quoted form. *)

QuoteRune(r) ==
    CASE r = NL  -> <<BS, "n">>
      [] r = TAB -> <<BS, "t">>
      [] r = DQ  -> <<BS, DQ>>
      [] r = BS  -> <<BS, BS>>
      [] OTHER   -> <<r>>

RECURSIVE QuoteBody(_)
QuoteBody(str) ==
    IF str = <<>> THEN <<>> ELSE QuoteRune(Head(str)) \o QuoteBody(Tail(str))

Sprintf(str) == <<DQ>> \o QuoteBody(str) \o <<DQ>>

----------------------------------------------------------------------------
(* replaceEscaped: the state machine over the runes of s. *)

reInit == [state |-> "init", out |-> <<>>, buf |-> <<>>, has |-> FALSE]

onInit(m, r) ==
    [m EXCEPT !.state = "init", !.out = m.out \o m.buf \o <<r>>, !.buf = <<>>]

onPreMatch(m) ==
    [m EXCEPT !.state = "preMatch", !.buf = <<BS>>]

onEscape(m, new) ==
    [m EXCEPT !.state = "match", !.out = m.out \o new, !.buf = <<>>, !.has = TRUE]

reStepMutant(m, r, escaped, new) ==
    IF m.state = "preMatch" /\ r = escaped THEN onEscape(m, new)
    ELSE IF r = BS THEN onPreMatch([m EXCEPT !.out = m.out \o m.buf])
    ELSE onInit(m, r)

reStep(m, r, escaped, new) ==
    CASE m.state = "preMatch" ->
            IF r = escaped THEN onEscape(m, new) ELSE onInit(m, r)
      [] m.state = "match" ->
            IF r = BS THEN onPreMatch(m) ELSE onInit(m, r)
      [] OTHER ->
            IF r = BS THEN onPreMatch(m) ELSE onInit(m, r)

RECURSIVE reLoop(_, _, _, _)
reLoop(m, str, escaped, new) ==
    IF str = <<>> THEN m
    ELSE reLoop(reStep(m, Head(str), escaped, new), Tail(str), escaped, new)

replaceEscaped(str, escaped, new) ==
    LET m == reLoop(reInit, str, escaped, new) IN <<m.out, m.has>>

----------------------------------------------------------------------------
(* readableStr. *)

isRawMutant(str) == Contains(str, NL) /\ ~Contains(str, BT)

isRaw(str) == (Contains(str, NL) \/ Contains(str, DQ)) /\ ~Contains(str, BT)

rawStr(str) == <<BT>> \o str \o <<BT>>

tabNew == <<TAB>>

nlNewMutant(d) == <<BS, "n", DQ, SP, "+", NL>> \o Repeat(indentUnit, d) \o <<DQ>>

nlNew(d) == <<BS, "n", DQ, SP, "+", NL>> \o Repeat(indentUnit, d + 1) \o <<DQ>>

contStr(d, n) == <<DQ, DQ, SP, "+", NL>> \o Repeat(indentUnit, d + 1) \o n

readableStrMutant(d, str) ==
    LET q == Sprintf(str)
        t == replaceEscaped(q, "t", tabNew)[1]
        n == replaceEscaped(t, "n", nlNew(d))
    IN  IF n[2] THEN contStr(d, n[1]) ELSE t

readableStr(d, str) ==
    IF isRaw(str) THEN rawStr(str)
    ELSE LET q == Sprintf(str)
             t == replaceEscaped(q, "t", tabNew)[1]
             n == replaceEscaped(t, "n", nlNew(d))
         IN  IF n[2] THEN contStr(d, n[1]) ELSE t

----------------------------------------------------------------------------
(* Styles: a pair of markers wrapped around a text; None wraps nothing. *)

None == [Set |-> <<>>, Unset |-> <<>>]
Cyan == [Set |-> <<"<36>">>, Unset |-> <<"<39>">>]
Blue == [Set |-> <<"<34>">>, Unset |-> <<"<39>">>]
Yellow == [Set |-> <<"<33>">>, Unset |-> <<"<39>">>]
Green == [Set |-> <<"<32>">>, Unset |-> <<"<39>">>]
Magenta == [Set |-> <<"<35>">>, Unset |-> <<"<39>">>]
White == [Set |-> <<"<37>">>, Unset |-> <<"<39>">>]
Red == [Set |-> <<"<31>">>, Unset |-> <<"<39>">>]
Underline == [Set |-> <<"<4>">>, Unset |-> <<"<24>">>]

Markers ==
    {"<36>", "<34>", "<33>", "<32>", "<35>", "<37>", "<31>", "<39>", "<4>", "<24>"}

S(str, style) == style.Set \o str \o style.Unset

RECURSIVE Stylize(_, _)
Stylize(str, list) ==
    IF list = <<>> THEN str ELSE Stylize(S(str, Head(list)), Tail(list))

StripANSI(str) == SelectSeq(str, LAMBDA c : c \notin Markers)

----------------------------------------------------------------------------
(* Token types and themes. *)

Opens == {"SliceOpen", "MapOpen", "StructOpen"}
Closes == {"SliceClose", "MapClose", "StructClose"}
Items == {"SliceItem", "MapKey", "StructKey"}
Seps == {"Colon", "InlineComma", "Chan"}

Types ==
    Opens \cup Closes \cup Items \cup Seps \cup
    {"Comma", "String", "TypeName", "Bool", "Rune", "Byte", "Number", "Func",
     "Comment", "Nil", "Error", "Circular"}

oneOf(t, list) == t \in list

ThemeDefault(t) ==
    CASE t = "TypeName" -> <<Cyan>>
      [] t \in {"Bool", "Chan"} -> <<Blue>>
      [] t \in {"Rune", "Byte", "String"} -> <<Yellow>>
      [] t = "Number" -> <<Green>>
      [] t = "Func" -> <<Magenta>>
      [] t = "Comment" -> <<White>>
      [] t = "Nil" -> <<Red>>
      [] t = "Error" -> <<Underline, Red>>
      [] OTHER -> <<None>>

ThemeNone(t) == <<None>>

\* A caller's theme: it colours the braces of the containers.
ThemeBraces(t) ==
    IF t \in Opens \cup Closes THEN <<Magenta>> ELSE <<None>>

Themes == {"default", "none", "braces"}

themeCall(th, t) ==
    CASE th = "default" -> ThemeDefault(t)
      [] th = "none" -> ThemeNone(t)
      [] th = "braces" -> ThemeBraces(t)

----------------------------------------------------------------------------
(* Format: one pass over the tokens. *)

newDepthMutant(d, tsq, k) ==
    LET d1 == IF oneOf(tsq[k].Type, {"MapOpen", "StructOpen"}) THEN d + 1 ELSE d
    IN  IF k < Len(tsq) /\ oneOf(tsq[k + 1].Type, Closes) THEN d1 - 1 ELSE d1

\* depth after the two adjustments at the head of the loop body
newDepth(d, tsq, k) ==
    LET d1 == IF oneOf(tsq[k].Type, Opens) THEN d + 1 ELSE d
    IN  IF k < Len(tsq) /\ oneOf(tsq[k + 1].Type, Closes) THEN d1 - 1 ELSE d1

caseOpen(o, t, styles) == o \o Stylize(t.Literal, styles) \o <<NL>>

caseItem(o, d) == o \o Repeat(indentUnit, d)

caseSep(o, t, styles) == o \o Stylize(t.Literal, styles) \o <<SP>>

caseComma(o, t, styles) == o \o Stylize(t.Literal, styles) \o <<NL>>

isEmptyOpen(o) == HasSuffix(o, <<"{", NL>>)

caseClose(o, d, t, styles) ==
    IF isEmptyOpen(o)
    THEN SubSeq(o, 1, Len(o) - 1) \o Stylize(t.Literal, styles)
    ELSE o \o Repeat(indentUnit, d) \o Stylize(t.Literal, styles)

caseString(o, d, t, styles) == o \o Stylize(readableStr(d, t.Literal), styles)

caseDefault(o, t, styles) == o \o Stylize(t.Literal, styles)

\* strings.Repeat panics on a negative count
repeatPanics(o, d, t) ==
    \/ t.Type \in Items /\ d < 0
    \/ t.Type \in Closes /\ ~isEmptyOpen(o) /\ d < 0
    \/ t.Type = "String" /\ ~isRaw(t.Literal) /\ d + 1 < 0

\* One iteration of the loop, on f = [depth, out, panicked].
formatStep(f, tsq, k, th) ==
    LET t == tsq[k]
        d == newDepth(f.depth, tsq, k)
        styles == themeCall(th, t.Type)
    IN  IF repeatPanics(f.out, d, t)
        THEN [depth |-> d, out |-> f.out, panicked |-> TRUE]
        ELSE [depth |-> d,
              panicked |-> FALSE,
              out |-> CASE t.Type \in Opens -> caseOpen(f.out, t, styles)
                        [] t.Type \in Items -> caseItem(f.out, d)
                        [] t.Type \in Seps -> caseSep(f.out, t, styles)
                        [] t.Type = "Comma" -> caseComma(f.out, t, styles)
                        [] t.Type \in Closes -> caseClose(f.out, d, t, styles)
                        [] t.Type = "String" -> caseString(f.out, d, t, styles)
                        [] OTHER -> caseDefault(f.out, t, styles)]

RECURSIVE formatLoop(_, _, _, _)
formatLoop(f, tsq, k, th) ==
    IF k > Len(tsq) \/ f.panicked THEN f
    ELSE formatLoop(formatStep(f, tsq, k, th), tsq, k + 1, th)

\* Format(ts, theme): [depth, out, panicked] when the loop ends.
Format(tsq, th) ==
    formatLoop([depth |-> 0, out |-> <<>>, panicked |-> FALSE], tsq, 1, th)

----------------------------------------------------------------------------
(* The calls of Format that are explored: every short token list, and      *)
(* every longer list of the tokens of a sequence of values.                *)

Tok(type, literal) == [Type |-> type, Literal |-> literal]

testStr1 == <<NL, "t", "e", "s", "t">>    \* "\ntest"
testStr2 == <<TAB, NL, BT>>               \* "\t\n`"
testStr3 == <<"o", "k">>                  \* "ok"

NestToks ==
    {Tok("SliceOpen", <<"{">>), Tok("SliceClose", <<"}">>), Tok("SliceItem", <<>>),
     Tok("Comma", <<",">>), Tok("Nil", <<"n", "i", "l">>)}

GenToks ==
    NestToks \cup
    {Tok("MapOpen", <<"{">>), Tok("MapClose", <<"}">>),
     Tok("StructOpen", <<"{">>), Tok("StructClose", <<"}">>),
     Tok("Colon", <<":">>), Tok("TypeName", <<"T">>),
     Tok("String", testStr1), Tok("String", testStr2)}

TokInputs == SeqsUpTo(GenToks, MaxToks) \cup SeqsUpTo(NestToks, MaxNest)

IsOpen(t) == t.Type \in Opens
IsClose(t) == t.Type \in Closes

CloseOf(type) ==
    CASE type = "SliceOpen" -> "SliceClose"
      [] type = "MapOpen" -> "MapClose"
      [] type = "StructOpen" -> "StructClose"

\* tsq[k..] closes the open containers stk (innermost last) and no other.
RECURSIVE Nested(_, _, _)
Nested(tsq, k, stk) ==
    IF k > Len(tsq) THEN stk = <<>>
    ELSE IF IsOpen(tsq[k]) THEN Nested(tsq, k + 1, Append(stk, tsq[k].Type))
    ELSE IF IsClose(tsq[k])
         THEN /\ stk # <<>>
              /\ CloseOf(stk[Len(stk)]) = tsq[k].Type
              /\ Nested(tsq, k + 1, SubSeq(stk, 1, Len(stk) - 1))
    ELSE Nested(tsq, k + 1, stk)

Balanced(tsq) == Nested(tsq, 1, <<>>)

\* The number of containers still open after token k.
NestLevel(tsq, k) ==
    Cardinality({j \in 1..k : IsOpen(tsq[j])}) - Cardinality({j \in 1..k : IsClose(tsq[j])})

StrIdle ==
    /\ lit = <<>> /\ sdepth = 0 /\ s = <<>> /\ re = reInit /\ ri = 0 /\ res = <<>>

FmtIdle ==
    /\ ts = <<>> /\ theme = "none" /\ i = 0 /\ depth = 0 /\ out = <<>>

TokIdle ==
    /\ heap = <<>> /\ stack = <<>> /\ seen = <<>> /\ toks = <<>>

FmtInit ==
    /\ pc = "Format"
    /\ ts \in TokInputs
    /\ theme \in Themes
    /\ i = 1
    /\ depth = 0
    /\ out = <<>>
    /\ StrIdle
    /\ TokIdle

FormatCase(kinds) ==
    /\ i <= Len(ts)
    /\ ts[i].Type \in kinds
    /\ LET f == formatStep([depth |-> depth, out |-> out, panicked |-> FALSE], ts, i, theme)
       IN  /\ ~f.panicked
           /\ depth' = f.depth
           /\ out' = f.out
    /\ i' = i + 1
    /\ UNCHANGED <<pc, ts, theme, strVars, tokVars>>

FormatOpen ==
    /\ pc = "Format"
    /\ FormatCase(Opens)

FormatItem ==
    /\ pc = "Format"
    /\ FormatCase(Items)

FormatSep ==
    /\ pc = "Format"
    /\ FormatCase(Seps)

FormatComma ==
    /\ pc = "Format"
    /\ FormatCase({"Comma"})

FormatClose ==
    /\ pc = "Format"
    /\ FormatCase(Closes)

FormatString ==
    /\ pc = "Format"
    /\ FormatCase({"String"})

FormatDefault ==
    /\ pc = "Format"
    /\ FormatCase(Types \ (Opens \cup Items \cup Seps \cup Closes \cup {"Comma", "String"}))

FormatPanic ==
    /\ pc = "Format"
    /\ i <= Len(ts)
    /\ LET f == formatStep([depth |-> depth, out |-> out, panicked |-> FALSE], ts, i, theme)
       IN  /\ f.panicked
           /\ depth' = f.depth
    /\ pc' = "panic"
    /\ UNCHANGED <<ts, theme, i, out, strVars, tokVars>>

FormatReturn ==
    /\ pc = "Format"
    /\ i > Len(ts)
    /\ pc' = "done"
    /\ UNCHANGED <<fmtVars, strVars, tokVars>>

Next ==
    \/ FormatOpen
    \/ FormatItem
    \/ FormatSep
    \/ FormatComma
    \/ FormatClose
    \/ FormatString
    \/ FormatDefault
    \/ FormatPanic
    \/ FormatReturn

Spec == FmtInit /\ [][Next]_vars

\* The process returns what the function Format computes.
FmtProcessIsFunction ==
    pc = "done" => Format(ts, theme) = [depth |-> depth, out |-> out, panicked |-> FALSE]

----------------------------------------------------------------------------
(* Claims about Format, under Spec. *)

\* C1: for every theme, an open token immediately followed by its close
\* token is emitted as the open marker and the close marker on one line,
\* with no newline between them.
C1_EmptyOnOneLine ==
    (pc \in {"Format", "done"} /\ i >= 3 /\ IsOpen(ts[i - 2])
        /\ ts[i - 1].Type = CloseOf(ts[i - 2].Type)) =>
        HasSuffix(StripANSI(out), ts[i - 2].Literal \o ts[i - 1].Literal)

\* C3: on a balanced, properly nested token list Format does not panic:
\* depth is not negative where indentation is emitted, and it is 0 after the
\* last token.
C3_BalancedNoPanic ==
    Balanced(ts) =>
        /\ pc # "panic"
        /\ pc = "done" => depth = 0
        /\ (pc = "Format" /\ i <= Len(ts) /\ ts[i].Type \in Items \cup Closes) =>
               newDepth(depth, ts, i) >= 0

\* A finished run over a slice in a slice, with an item at depth 2.
C3_Witness ==
    /\ pc = "done"
    /\ Balanced(ts)
    /\ \E k \in 1..Len(ts) : ts[k].Type \in Items /\ NestLevel(ts, k) = 2
    /\ Contains(out, indentUnit[1])

IsTestStr1Call ==
    /\ pc = "done"
    /\ ts = <<Tok("String", testStr1)>>
    /\ theme = "none"

ItemsHaveValues(tsq) ==
    \A k \in 1..Len(tsq) :
        tsq[k].Type \in Items =>
            k < Len(tsq) /\ tsq[k + 1].Type \notin Items \cup Closes \cup {"Comma"}

\* C8: on a balanced token list the close token of a non-empty container is
\* preceded by exactly N indent units, N the number of containers around
\* that container, also when another close token follows it.
C8_CloseIndent ==
    (pc \in {"Format", "done"} /\ Balanced(ts) /\ ItemsHaveValues(ts) /\ i >= 3
        /\ IsClose(ts[i - 1]) /\ ~IsOpen(ts[i - 2])) =>
        LET n == NestLevel(ts, i - 1)
            c == Stylize(ts[i - 1].Literal, themeCall(theme, ts[i - 1].Type))
        IN  /\ HasSuffix(out, Repeat(indentUnit, n) \o c)
            /\ ~HasSuffix(out, Repeat(indentUnit, n + 1) \o c)

----------------------------------------------------------------------------
(* Tokenize: the depth-first walk of a value.  The values explored are     *)
(* slices of interface values: node 1 is the value passed in, an element   *)
(* is nil (0) or a slice (its node).                                       *)

RECURSIVE SeqsOfLen(_, _)
SeqsOfLen(A, n) ==
    IF n = 0 THEN {<<>>}
    ELSE {Append(q, x) : q \in SeqsOfLen(A, n - 1), x \in A}

\* The graphs of n nodes with at most e elements in all.
RECURSIVE HeapsOf(_, _)
HeapsOf(n, e) ==
    IF n = 0 THEN {<<>>}
    ELSE UNION {{Append(h, elems) : h \in HeapsOf(n - 1, e - k),
                                    elems \in SeqsOfLen(0..MaxNodes, k)} : k \in 0..e}

Heaps == HeapsOf(MaxNodes, MaxEdges)

typeTok == Tok("TypeName", <<"[]interface {}">>)
openTok == Tok("SliceOpen", <<"{">>)
itemTok == Tok("SliceItem", <<>>)
commaTok == Tok("Comma", <<",">>)
closeTok == Tok("SliceClose", <<"}">>)
nilTok == Tok("Nil", <<"nil">>)

RECURSIVE pathLit(_)
pathLit(p) ==
    IF p = <<>> THEN <<>>
    ELSE IF Len(p) = 1 THEN <<ToString(p[1])>>
    ELSE <<ToString(p[1]), ",", SP>> \o pathLit(Tail(p))

circularTok(p) ==
    Tok("Circular", <<"gop.Circular(">> \o pathLit(p) \o <<").([]interface {})">>)

curPathMutant(stk) == [j \in 1..Len(stk) |-> stk[j].next]

\* The path of the element the top frame is at: the indexes, from the root.
curPath(stk) == [j \in 1..Len(stk) |-> stk[j].next - 1]

top(stk) == stk[Len(stk)]

pop(stk) == SubSeq(stk, 1, Len(stk) - 1)

\* the top frame moves on to its next element
advance(stk) ==
    IF stk = <<>> THEN stk
    ELSE [stk EXCEPT ![Len(stk)].next = stk[Len(stk)].next + 1]

enterSeen(sn, n, p) == (n :> p) @@ sn

leaveSeenMutant(sn, n) == sn

leaveSeen(sn, n) == [m \in DOMAIN sn \ {n} |-> sn[m]]

TokInit ==
    /\ pc = "Tokenize"
    /\ heap \in Heaps
    /\ stack = <<>>
    /\ seen = <<>>
    /\ toks = <<>>
    /\ FmtIdle
    /\ StrIdle

\* the call on the value itself: it is recorded at the empty path
TokRoot ==
    /\ pc = "Tokenize"
    /\ stack = <<>>
    /\ seen' = enterSeen(seen, 1, <<>>)
    /\ toks' = toks \o <<typeTok, openTok>>
    /\ stack' = <<[node |-> 1, next |-> 1]>>
    /\ UNCHANGED <<pc, heap, fmtVars, strVars>>

AtElement ==
    /\ pc = "Tokenize"
    /\ stack # <<>>
    /\ top(stack).next <= Len(heap[top(stack).node])

element == heap[top(stack).node][top(stack).next]

TokNil ==
    /\ AtElement
    /\ element = 0
    /\ toks' = toks \o <<itemTok, nilTok, commaTok>>
    /\ stack' = advance(stack)
    /\ UNCHANGED <<pc, heap, seen, fmtVars, strVars>>

TokCircular ==
    /\ AtElement
    /\ element # 0
    /\ element \in DOMAIN seen
    /\ toks' = toks \o <<itemTok, circularTok(seen[element]), commaTok>>
    /\ stack' = advance(stack)
    /\ UNCHANGED <<pc, heap, seen, fmtVars, strVars>>

TokEnter ==
    /\ AtElement
    /\ element # 0
    /\ element \notin DOMAIN seen
    /\ seen' = enterSeen(seen, element, curPath(stack))
    /\ toks' = toks \o <<itemTok, typeTok, openTok>>
    /\ stack' = Append(stack, [node |-> element, next |-> 1])
    /\ UNCHANGED <<pc, heap, fmtVars, strVars>>

TokLeave ==
    /\ pc = "Tokenize"
    /\ stack # <<>>
    /\ top(stack).next > Len(heap[top(stack).node])
    /\ seen' = leaveSeen(seen, top(stack).node)
    /\ toks' = toks \o (IF Len(stack) = 1 THEN <<closeTok>> ELSE <<closeTok, commaTok>>)
    /\ stack' = advance(pop(stack))
    /\ pc' = IF Len(stack) = 1 THEN "tokenized" ELSE "Tokenize"
    /\ UNCHANGED <<heap, fmtVars, strVars>>

\* Format(Tokenize(v), theme), as F and Plain call it
TokFormat ==
    /\ pc = "tokenized"
    /\ \E th \in Themes :
          LET f == Format(toks, th)
          IN  /\ theme' = th
              /\ ts' = toks
              /\ i' = Len(toks) + 1
              /\ depth' = f.depth
              /\ out' = f.out
              /\ pc' = IF f.panicked THEN "panic" ELSE "done"
    /\ UNCHANGED <<tokVars, strVars>>

\* the steps of Tokenize
TokWalk ==
    \/ TokRoot
    \/ TokNil
    \/ TokCircular
    \/ TokEnter
    \/ TokLeave

TokNext ==
    \/ TokWalk
    \/ TokFormat

TokSpec == TokInit /\ [][TokNext]_vars

\* Tokenize runs on one goroutine and nothing holds it up: a step of the
\* walk that can be taken is taken.
TokLive == TokSpec /\ WF_vars(TokWalk)

----------------------------------------------------------------------------
(* Claims about Tokenize, under TokSpec and TokLive. *)

\* The walk of graph h written as the recursion over the ancestors of the
\* position it is at: the visits of nodes and the references to an
\* ancestor, in order.  ancs maps each node on the current path to the
\* path of its position.
RECURSIVE walk(_, _, _, _, _)
walk(h, n, k, path, ancs) ==
    IF k > Len(h[n]) THEN <<>>
    ELSE LET c == h[n][k]
             p == path \o <<k - 1>>
             here ==
                 IF c = 0 THEN <<>>
                 ELSE IF c \in DOMAIN ancs
                 THEN <<[circ |-> TRUE, src |-> n, idx |-> k, node |-> c, path |-> ancs[c]]>>
                 ELSE <<[circ |-> FALSE, src |-> n, idx |-> k, node |-> c, path |-> p]>>
                      \o walk(h, c, 1, p, (c :> p) @@ ancs)
         IN  here \o walk(h, n, k + 1, path, ancs)

Events(h) ==
    <<[circ |-> FALSE, src |-> 0, idx |-> 0, node |-> 1, path |-> <<>>]>>
    \o walk(h, 1, 1, <<>>, 1 :> <<>>)

BackRefs(h) == SelectSeq(Events(h), LAMBDA e : e.circ)

\* The path at which node m is visited first in the walk.
FirstVisit(h, m) ==
    LET ev == Events(h)
        j == CHOOSE j \in 1..Len(ev) :
                 /\ ~ev[j].circ /\ ev[j].node = m
                 /\ \A l \in 1..(j - 1) : ev[l].circ \/ ev[l].node # m
    IN  ev[j].path

CircToks(tsq) == SelectSeq(tsq, LAMBDA t : t.Type = "Circular")

Succ(h, n) == {h[n][k] : k \in 1..Len(h[n])} \ {0}

RECURSIVE Closure(_, _)
Closure(h, A) ==
    LET B == A \cup UNION {Succ(h, n) : n \in A}
    IN  IF B = A THEN A ELSE Closure(h, B)

SelfReferential(h) ==
    \E n \in Closure(h, {1}) : n \in Closure(h, Succ(h, n))

\* A value without a cycle, rendered in full at every position.
RECURSIVE render(_, _, _)
render(h, n, k) ==
    IF k > Len(h[n]) THEN <<>>
    ELSE LET c == h[n][k]
         IN  <<itemTok>>
             \o (IF c = 0 THEN <<nilTok>>
                 ELSE <<typeTok, openTok>> \o render(h, c, 1) \o <<closeTok>>)
             \o <<commaTok>>
             \o render(h, n, k + 1)

renderValue(h) == <<typeTok, openTok>> \o render(h, 1, 1) \o <<closeTok>>

\* C2: for the tokens of any value and any theme, Format's text with the
\* style markers removed is Format's text under ThemeNone.
C2_StripIsPlain ==
    pc = "done" => StripANSI(out) = Format(ts, "none").out

\* C4 as claimed: one circular-reference token per distinct back-edge, each
\* carrying the path at which the node it refers to was first visited.
C4_OnePerBackEdge ==
    pc = "tokenized" =>
        LET refs == BackRefs(heap)
            ct == CircToks(toks)
        IN  /\ Len(ct) = Cardinality({<<refs[j].src, refs[j].idx>> : j \in 1..Len(refs)})
            /\ \A j \in 1..Len(ct) :
                   j <= Len(refs) => ct[j] = circularTok(FirstVisit(heap, refs[j].node))

\* C4 as amended: Tokenize terminates, and it emits one circular-reference
\* token at each position of the walk that refers to a node on the path from
\* the root to that position, carrying the path of that node's position on
\* the current path.
C4_OnePerBackReference ==
    /\ <>(pc # "Tokenize")
    /\ [](pc = "tokenized" =>
            LET refs == BackRefs(heap)
                ct == CircToks(toks)
            IN  /\ Len(ct) = Len(refs)
                /\ \A j \in 1..Len(ct) : ct[j] = circularTok(refs[j].path))

\* A slice that holds itself, met at two positions of the value.
C4_Witness ==
    /\ pc = "tokenized"
    /\ heap = <<(<<2, 2>>), (<<2>>)>>
    /\ CircToks(toks) = <<circularTok(<<0>>), circularTok(<<1>>)>>

\* C5: a circular-reference token is emitted only for a node on the path
\* from the root to the current position (the visited set holds exactly the
\* nodes of that path), so a value without a cycle is rendered in full at
\* every position, with no circular-reference token, also where two
\* positions hold the same slice.
C5_SharedNotCircular ==
    /\ \A n \in DOMAIN seen :
          \E j \in 1..Len(stack) :
              stack[j].node = n /\ seen[n] = curPath(SubSeq(stack, 1, j - 1))
    /\ (pc = "tokenized" /\ ~SelfReferential(heap)) =>
          /\ toks = renderValue(heap)
          /\ CircToks(toks) = <<>>

\* One slice at two sibling positions, both rendered.
C5_Witness ==
    /\ pc = "tokenized"
    /\ heap = <<(<<2, 2>>), (<<0>>)>>
    /\ Len(SelectSeq(toks, LAMBDA t : t.Type = "SliceOpen")) = 3
    /\ CircToks(toks) = <<>>

----------------------------------------------------------------------------
(* readableStr as a process: the raw-literal test, the quoting, then the   *)
(* two runs of replaceEscaped, one rune per step.                          *)

Alphabet == {"a", "n", "t", NL, TAB, DQ, BS, BT}

StrInputs == SeqsUpTo(Alphabet, MaxStrLen) \cup {testStr1, testStr2, testStr3}

escapedOf(p) == IF p = "tabs" THEN "t" ELSE "n"

newOf(p, d) == IF p = "tabs" THEN tabNew ELSE nlNew(d)

StrInit ==
    /\ pc = "readableStr"
    /\ lit \in StrInputs
    /\ sdepth \in 0..MaxDepth
    /\ s = lit
    /\ re = reInit
    /\ ri = 0
    /\ res = <<>>
    /\ FmtIdle
    /\ TokIdle

ReadableRaw ==
    /\ pc = "readableStr"
    /\ isRaw(s)
    /\ res' = rawStr(s)
    /\ pc' = "done"
    /\ UNCHANGED <<lit, sdepth, s, re, ri, fmtVars, tokVars>>

ReadableQuote ==
    /\ pc = "readableStr"
    /\ ~isRaw(s)
    /\ s' = Sprintf(s)
    /\ re' = reInit
    /\ ri' = 1
    /\ pc' = "tabs"
    /\ UNCHANGED <<lit, sdepth, res, fmtVars, tokVars>>

RuneStep ==
    /\ pc \in {"tabs", "newlines"}
    /\ ri <= Len(s)
    /\ re' = reStep(re, s[ri], escapedOf(pc), newOf(pc, sdepth))
    /\ ri' = ri + 1
    /\ UNCHANGED <<pc, lit, sdepth, s, res, fmtVars, tokVars>>

RuneInit ==
    /\ re.state = "init"
    /\ RuneStep

RunePreMatch ==
    /\ re.state = "preMatch"
    /\ RuneStep

RuneMatch ==
    /\ re.state = "match"
    /\ RuneStep

TabsReturn ==
    /\ pc = "tabs"
    /\ ri > Len(s)
    /\ s' = re.out
    /\ re' = reInit
    /\ ri' = 1
    /\ pc' = "newlines"
    /\ UNCHANGED <<lit, sdepth, res, fmtVars, tokVars>>

NewlinesReturn ==
    /\ pc = "newlines"
    /\ ri > Len(s)
    /\ res' = IF re.has THEN contStr(sdepth, re.out) ELSE s
    /\ pc' = "done"
    /\ UNCHANGED <<lit, sdepth, s, re, ri, fmtVars, tokVars>>

StrNext ==
    \/ ReadableRaw
    \/ ReadableQuote
    \/ RuneInit
    \/ RunePreMatch
    \/ RuneMatch
    \/ TabsReturn
    \/ NewlinesReturn

StrSpec == StrInit /\ [][StrNext]_vars

\* The process returns what the function readableStr computes.
StrProcessIsFunction == pc = "done" => res = readableStr(sdepth, lit)

----------------------------------------------------------------------------
(* Reading a Go string literal back. *)

RECURSIVE Count(_, _)
Count(str, c) ==
    IF str = <<>> THEN 0
    ELSE (IF Head(str) = c THEN 1 ELSE 0) + Count(Tail(str), c)

RECURSIVE SplitLines(_)
SplitLines(str) ==
    IF ~Contains(str, NL) THEN <<str>>
    ELSE LET k == CHOOSE k \in 1..Len(str) :
                      str[k] = NL /\ \A j \in 1..(k - 1) : str[j] # NL
         IN  <<SubSeq(str, 1, k - 1)>> \o SplitLines(SubSeq(str, k + 1, Len(str)))

Unescape(c) ==
    CASE c = "n" -> NL
      [] c = "t" -> TAB
      [] c = DQ  -> DQ
      [] c = BS  -> BS

\* The string an interpreted literal's body denotes; ok is FALSE when the
\* body is no valid body (a bare quote, a raw newline, a dangling backslash).
RECURSIVE Unquote(_)
Unquote(body) ==
    IF body = <<>> THEN [ok |-> TRUE, val |-> <<>>]
    ELSE IF Head(body) = BS
         THEN IF Len(body) < 2 \/ body[2] \notin {"n", "t", DQ, BS}
              THEN [ok |-> FALSE, val |-> <<>>]
              ELSE LET rest == Unquote(SubSeq(body, 3, Len(body)))
                   IN  [ok |-> rest.ok, val |-> <<Unescape(body[2])>> \o rest.val]
         ELSE IF Head(body) \in {DQ, NL}
              THEN [ok |-> FALSE, val |-> <<>>]
              ELSE LET rest == Unquote(Tail(body))
                   IN  [ok |-> rest.ok, val |-> <<Head(body)>> \o rest.val]

\* Line number j of a continuation of n lines at depth d: the indentation,
\* a double-quoted segment, and " +" unless it is the last.
SegTail(last) == IF last THEN <<DQ>> ELSE <<DQ, SP, "+">>

IsSegLine(line, d, last) ==
    LET ind == Repeat(indentUnit, d + 1)
    IN  /\ Len(line) >= Len(ind) + 1 + Len(SegTail(last))
        /\ SubSeq(line, 1, Len(ind)) = ind
        /\ line[Len(ind) + 1] = DQ
        /\ HasSuffix(line, SegTail(last))

SegBody(line, d, last) ==
    SubSeq(line, d + 3, Len(line) - Len(SegTail(last)))

RECURSIVE ConcatSegs(_, _, _)
ConcatSegs(lines, d, j) ==
    IF j > Len(lines) THEN <<>>
    ELSE Unquote(SegBody(lines[j], d, j = Len(lines))).val \o ConcatSegs(lines, d, j + 1)

----------------------------------------------------------------------------
(* Claims about readableStr and replaceEscaped, under StrSpec. *)

\* The literal a readableStr result denotes, read back: one double-quoted
\* literal, or a continuation of double-quoted segments.
IsQuotedOf(r, d, str) ==
    LET lines == SplitLines(r)
    IN  IF Len(lines) = 1
        THEN /\ Len(r) >= 2
             /\ Head(r) = DQ
             /\ r[Len(r)] = DQ
             /\ Unquote(SubSeq(r, 2, Len(r) - 1)) = [ok |-> TRUE, val |-> str]
        ELSE /\ lines[1] = <<DQ, DQ, SP, "+">>
             /\ \A j \in 2..Len(lines) :
                    /\ IsSegLine(lines[j], d, j = Len(lines))
                    /\ Unquote(SegBody(lines[j], d, j = Len(lines))).ok
             /\ ConcatSegs(lines, d, 2) = str

RECURSIVE RunBefore(_, _)
RunBefore(str, p) ==
    IF p > 1 /\ str[p - 1] = BS THEN 1 + RunBefore(str, p - 1) ELSE 0

\* Position p starts a genuine escape of c: a backslash that is preceded by
\* an even number of backslashes and followed by c.
Genuine(str, p, c) ==
    /\ p >= 1 /\ p < Len(str)
    /\ str[p] = BS
    /\ str[p + 1] = c
    /\ RunBefore(str, p) % 2 = 0

RECURSIVE Replaced(_, _, _, _)
Replaced(str, p, c, new) ==
    IF p > Len(str) THEN <<>>
    ELSE (IF Genuine(str, p, c) THEN new
          ELSE IF Genuine(str, p - 1, c) THEN <<>>
          ELSE <<str[p]>>) \o Replaced(str, p + 1, c, new)

\* C9: on a Go-quoted string, replaceEscaped replaces backslash-c exactly
\* where the backslash is preceded by an even number of backslashes, copies
\* every other character in order, and reports whether it replaced anything.
C9_ReplaceEscaped ==
    (pc \in {"tabs", "newlines"} /\ ri > Len(s)) =>
        /\ re.out = Replaced(s, 1, escapedOf(pc), newOf(pc, sdepth))
        /\ re.has = (\E p \in 1..Len(s) : Genuine(s, p, escapedOf(pc)))

\* An escaped backslash followed by the letter, and a genuine escape, in
\* one scanned string.
C9_Witness ==
    /\ pc = "tabs"
    /\ ri > Len(s)
    /\ \E p \in 1..Len(s) : Genuine(s, p, BS) /\ p + 2 <= Len(s) /\ s[p + 2] = "t"
    /\ re.has

\* C10: a literal with k >= 1 newlines and a backquote, at depth d, is
\* rendered as "" + and then k+1 double-quoted segments, each on its own
\* line indented d+1 units, all but the last ending in the newline escape
\* and followed by " +"; the segments concatenated give the literal.
C10_Continuation ==
    (pc = "done" /\ Count(lit, NL) >= 1 /\ Contains(lit, BT)) =>
        LET k == Count(lit, NL)
            lines == SplitLines(res)
        IN  /\ Len(lines) = k + 2
            /\ lines[1] = <<DQ, DQ, SP, "+">>
            /\ \A j \in 2..(k + 2) :
                   /\ IsSegLine(lines[j], sdepth, j = k + 2)
                   /\ Unquote(SegBody(lines[j], sdepth, j = k + 2)).ok
                   /\ j < k + 2 =>
                        HasSuffix(SegBody(lines[j], sdepth, FALSE), <<BS, "n">>)
            /\ ConcatSegs(lines, sdepth, 2) = lit

C10_Witness ==
    /\ pc = "done"
    /\ Count(lit, NL) = 2
    /\ Contains(lit, BT)
    /\ sdepth = 1
    /\ Len(SplitLines(res)) = 4

====
